---- MODULE Spec2Model ----
(***************************************************************************)
(* Model of pydrawise/client.py: the Hydrawise client facade, its request  *)
(* executor (_client / _query / _mutation) and the cached schema provider  *)
(* (_get_schema).                                                          *)
(*                                                                         *)
(* A public operation is a coroutine.  Each action below is one segment of *)
(* that coroutine between two awaits:                                      *)
(*   Call..      the facade method up to `await self._auth.token()`        *)
(*   TokenOk/TokenFail   the token fetch returns or raises                 *)
(*   Connect     `async with ... as session` enters (session opened)       *)
(*   Send        `session.execute(...)` puts the document on the wire      *)
(*   Respond/ExecuteFail  execute returns or raises; the rest of the       *)
(*               with-body (the mutation interpretation) runs              *)
(*   Close       the with-block exits (session released), the facade       *)
(*               post-processes (deserialize) and the call finishes        *)
(*   Return      the caller takes the outcome; the slot is free again      *)
(***************************************************************************)
EXTENDS Integers, Sequences, FiniteSets, TLC

VARIABLES
    schemaCache,   \* functools.cache of _get_schema: 0 = empty, else descriptor id
    builds,        \* number of times graphql_schema(...) has run
    hydra,         \* Hydrawise instance -> descriptor wrapped by self._schema (0 = not constructed)
    created,       \* number of gql Client objects constructed so far
    open,          \* set of Client ids whose transport session is connected
    pc,            \* call slot -> position of the coroutine
    inp,           \* call slot -> the operation and its arguments
    req,           \* call slot -> the selector built by the facade method
    tok,           \* call slot -> "none" | "ok" | "failed"
    sess,          \* call slot -> id of the Client it entered (0 = none)
    sent,          \* call slot -> sequence of documents it put on the wire
    resp,          \* call slot -> what session.execute produced
    out,           \* call slot -> pending / final outcome of the call
    anyFailed      \* history: some completed call raised out of session.execute

vars == <<schemaCache, builds, hydra, created, open, pc, inp, req, tok, sess,
          sent, resp, out, anyFailed>>

----------------------------------------------------------------------------
(* Bounds *)

MaxCalls == 2
MaxSessions == 2
MaxClients == 2
MaxDuration == 2
MaxLen == 2
MaxId == 1

Slots == 1..MaxCalls
SeqSlots == {1}
Instances == 1..MaxClients
Ids == 1..MaxId
Durations == (0 - 1)..MaxDuration
Untils == {1}

----------------------------------------------------------------------------
(* Wire values: what parse_results leaves under a key of the result dict *)

WireValue(kind, keys, status, summary, n, items) ==
    [kind |-> kind, keys |-> keys, status |-> status, summary |-> summary,
     n |-> n, items |-> items]

Dict(keys, status, summary) == WireValue("dict", keys, status, summary, 0, <<>>)
\* bool: n = 0 False, 1 True; int: the number; str / list: the length; null: None
Scalar(kind, n) == WireValue(kind, {}, "", "", n, <<>>)
Objects(items) == WireValue("objects", {}, "", "", Len(items), items)
Absent == Scalar("absent", 0)

Statuses == {"OK", "ERROR", "ok"}
Summaries == {"done", "zone busy", ""}

StatusObjects == {Dict({"status", "summary"}, s, m) : s \in Statuses, m \in Summaries}

MutationValues ==
    StatusObjects
    \cup {Dict({"status"}, s, "") : s \in {"OK", "ERROR"}}
    \cup {Dict({"summary"}, "", "zone busy"), Dict({}, "", "")}
    \cup {Scalar(k, n) : k \in {"bool", "int", "str", "list"}, n \in 0..1}
    \cup {Scalar("null", 0), Absent}

\* A wire object of a query: the required identifier may be missing.
WireObject(hasId, id) == [hasId |-> hasId, id |-> id]
WireObjects == {WireObject(TRUE, i) : i \in Ids} \cup {WireObject(FALSE, 0)}

SeqsUpTo(S, n) == UNION {[1..k -> S] : k \in 0..n}

ListValues == {Objects(ws) : ws \in SeqsUpTo(WireObjects, MaxLen)} \cup {Absent}
SingleValues == {Objects(<<w>>) : w \in WireObjects} \cup {Absent}

\* What session.execute raises: a transport failure or a GraphQL errors response.
ExecuteErrors == {"TransportError", "TransportQueryError"}

----------------------------------------------------------------------------
(* Outcomes *)

Outcome(kind, exc, args, value) ==
    [kind |-> kind, exc |-> exc, args |-> args, value |-> value]
NoOutcome == Outcome("none", "", <<>>, <<>>)
ReturnNone == Outcome("return", "", <<>>, <<>>)
ReturnValue(v) == Outcome("return", "", <<>>, v)
Raise(exc, args) == Outcome("raise", exc, args, <<>>)

----------------------------------------------------------------------------
(* Schema provider *)

\* graphql_schema(query=..., mutation=...): a new descriptor object per run.
graphql_schema == builds + 1

_get_schema_uncached ==
    [desc |-> graphql_schema, cache |-> graphql_schema, builds |-> builds + 1]

\* @cache def _get_schema(): the first call builds and stores, later calls
\* return the stored object.
_get_schema ==
    IF schemaCache # 0
    THEN [desc |-> schemaCache, cache |-> schemaCache, builds |-> builds]
    ELSE [desc |-> graphql_schema, cache |-> graphql_schema, builds |-> builds + 1]

----------------------------------------------------------------------------
(* Selectors built by the facade methods *)

Selector(type, name, args, select) ==
    [type |-> type, name |-> name, args |-> args, select |-> select]
NoSelector == Selector("none", "", <<>>, "")

\* DateTime.to_json(until).value: the wire form of a timestamp.
DateTime_to_json(until) == <<"timestamp", until>>

StatusSelectors == "StatusCodeAndSummary"

get_user == Selector("query", "me", <<>>, "User")
get_controllers == Selector("query", "me", <<>>, "User.controllers/Controller")
get_controller(controller_id) ==
    Selector("query", "controller", "controllerId" :> controller_id, "Controller")
get_zones(controller) ==
    Selector("query", "controller", "controllerId" :> controller, "Controller.zones/Zone")
get_zone(zone_id) == Selector("query", "zone", "zoneId" :> zone_id, "Zone")

start_zone_kwargs_nonneg(zone, mark_run_as_scheduled, custom_run_duration) ==
    LET kwargs == ("zoneId" :> zone) @@ ("markRunAsScheduled" :> mark_run_as_scheduled)
    IN  IF custom_run_duration >= 0
        THEN ("customRunDuration" :> custom_run_duration) @@ kwargs
        ELSE kwargs

start_zone_kwargs(zone, mark_run_as_scheduled, custom_run_duration) ==
    LET kwargs == ("zoneId" :> zone) @@ ("markRunAsScheduled" :> mark_run_as_scheduled)
    IN  IF custom_run_duration > 0
        THEN ("customRunDuration" :> custom_run_duration) @@ kwargs
        ELSE kwargs

start_zone(zone, mark_run_as_scheduled, custom_run_duration) ==
    Selector("mutation", "startZone",
             start_zone_kwargs(zone, mark_run_as_scheduled, custom_run_duration),
             StatusSelectors)

stop_zone(zone) == Selector("mutation", "stopZone", "zoneId" :> zone, StatusSelectors)

start_all_zones_kwargs(controller, mark_run_as_scheduled, custom_run_duration) ==
    LET kwargs == ("controllerId" :> controller)
                  @@ ("markRunAsScheduled" :> mark_run_as_scheduled)
    IN  IF custom_run_duration > 0
        THEN ("customRunDuration" :> custom_run_duration) @@ kwargs
        ELSE kwargs

start_all_zones(controller, mark_run_as_scheduled, custom_run_duration) ==
    Selector("mutation", "startAllZones",
             start_all_zones_kwargs(controller, mark_run_as_scheduled, custom_run_duration),
             StatusSelectors)

stop_all_zones(controller) ==
    Selector("mutation", "stopAllZones", "controllerId" :> controller, StatusSelectors)

suspend_zone(zone, until) ==
    Selector("mutation", "suspendZone",
             ("zoneId" :> zone) @@ ("until" :> DateTime_to_json(until)), StatusSelectors)

resume_zone(zone) == Selector("mutation", "resumeZone", "zoneId" :> zone, StatusSelectors)

suspend_all_zones(controller, until) ==
    Selector("mutation", "suspendAllZones",
             ("controllerId" :> controller) @@ ("until" :> DateTime_to_json(until)),
             StatusSelectors)

resume_all_zones(controller) ==
    Selector("mutation", "resumeAllZones", "controllerId" :> controller, StatusSelectors)

delete_zone_suspension(suspension) ==
    Selector("mutation", "deleteZoneSuspension", "id" :> suspension, "")

QueryOps == {"get_user", "get_controllers", "get_controller", "get_zones", "get_zone"}
ListQueryOps == {"get_controllers", "get_zones"}
StatusMutationOps ==
    {"start_zone", "stop_zone", "start_all_zones", "stop_all_zones",
     "suspend_zone", "resume_zone", "suspend_all_zones", "resume_all_zones"}
MutationOps == StatusMutationOps \cup {"delete_zone_suspension"}

\* dsl_gql(DSLQuery(selector)) / dsl_gql(DSLMutation(selector)): one document
\* whose top-level fields are the selectors handed to it.
dsl_gql(selector) == [type |-> selector.type, fields |-> <<selector>>]

----------------------------------------------------------------------------
(* Interpretation of a mutation's result: the body of _mutation after execute *)

isinstance_dict(v) == v.kind = "dict"

\* Python truthiness of `resp`.
Truthy(v) ==
    CASE v.kind = "dict" -> v.keys # {}
      [] v.kind = "null" -> FALSE
      [] OTHER -> v.n # 0

_mutation_result_inverted(v) ==
    IF v.kind = "absent" THEN Raise("KeyError", <<>>)
    ELSE IF isinstance_dict(v)
    THEN IF "status" \notin v.keys THEN Raise("KeyError", <<>>)
         ELSE IF v.status = "OK"
         THEN IF "summary" \notin v.keys THEN Raise("KeyError", <<>>)
              ELSE Raise("MutationError", <<v.summary>>)
         ELSE ReturnNone
    ELSE IF ~Truthy(v) THEN Raise("MutationError", <<>>)
    ELSE ReturnNone

_mutation_result_unchecked_bool(v) ==
    IF v.kind = "absent" THEN Raise("KeyError", <<>>)
    ELSE IF isinstance_dict(v)
    THEN IF "status" \notin v.keys THEN Raise("KeyError", <<>>)
         ELSE IF v.status # "OK"
         THEN IF "summary" \notin v.keys THEN Raise("KeyError", <<>>)
              ELSE Raise("MutationError", <<v.summary>>)
         ELSE ReturnNone
    ELSE ReturnNone

_mutation_result_strict(v) ==
    IF v.kind = "absent" THEN Raise("KeyError", <<>>)
    ELSE IF isinstance_dict(v)
    THEN IF "status" \notin v.keys THEN Raise("KeyError", <<>>)
         ELSE IF v.status # "OK"
         THEN IF "summary" \notin v.keys THEN Raise("KeyError", <<>>)
              ELSE Raise("MutationError", <<v.summary>>)
         ELSE ReturnNone
    ELSE IF v.kind # "bool" THEN Raise("TypeError", <<>>)
    ELSE IF ~Truthy(v) THEN Raise("MutationError", <<>>)
    ELSE ReturnNone

\* resp = result[selector.name]; the dict branch; the falsy branch; fall through.
_mutation_result(v) ==
    IF v.kind = "absent" THEN Raise("KeyError", <<>>)
    ELSE IF isinstance_dict(v)
    THEN IF "status" \notin v.keys THEN Raise("KeyError", <<>>)
         ELSE IF v.status # "OK"
         THEN IF "summary" \notin v.keys THEN Raise("KeyError", <<>>)
              ELSE Raise("MutationError", <<v.summary>>)
         ELSE ReturnNone
    ELSE IF ~Truthy(v) THEN Raise("MutationError", <<>>)
    ELSE ReturnNone

----------------------------------------------------------------------------
(* Entity model: deserialize(Type, wire) and deserialize(list[Type], wires) *)

Decoded(ok, val) == [ok |-> ok, val |-> val]

\* A required field that is missing raises; other wire fields are dropped.
deserialize(w) ==
    IF w.hasId THEN Decoded(TRUE, <<[id |-> w.id]>>) ELSE Decoded(FALSE, <<>>)

RECURSIVE deserialize_list(_)
deserialize_list(ws) ==
    IF ws = <<>> THEN Decoded(TRUE, <<>>)
    ELSE LET h == deserialize(Head(ws))
             t == deserialize_list(Tail(ws))
         IN  IF h.ok /\ t.ok THEN Decoded(TRUE, h.val \o t.val)
             ELSE Decoded(FALSE, <<>>)

\* The facade's tail after `result = await self._query(selector)`:
\* index the result, deserialize, return; nothing is caught.
get_zones_return_lenient(v) ==
    IF v.kind = "absent" THEN Raise("KeyError", <<>>)
    ELSE LET r == deserialize_list(SelectSeq(v.items, LAMBDA w : w.hasId))
         IN  ReturnValue(r.val)

get_zones_return(v) ==
    IF v.kind = "absent" THEN Raise("KeyError", <<>>)
    ELSE LET r == deserialize_list(v.items)
         IN  IF r.ok THEN ReturnValue(r.val) ELSE Raise("DeserializationError", <<>>)

get_controllers_return(v) ==
    IF v.kind = "absent" THEN Raise("KeyError", <<>>)
    ELSE LET r == deserialize_list(v.items)
         IN  IF r.ok THEN ReturnValue(r.val) ELSE Raise("DeserializationError", <<>>)

\* get_user, get_controller, get_zone: one wire object, one entity (carried
\* here as a one-element sequence).
single_return(v) ==
    IF v.kind = "absent" THEN Raise("KeyError", <<>>)
    ELSE LET r == deserialize(v.items[1])
         IN  IF r.ok THEN ReturnValue(r.val) ELSE Raise("DeserializationError", <<>>)

query_return(op, v) ==
    CASE op = "get_zones" -> get_zones_return(v)
      [] op = "get_controllers" -> get_controllers_return(v)
      [] OTHER -> single_return(v)

----------------------------------------------------------------------------
(* State *)

Input(op, self, id, mark, d, afterFailure) ==
    [op |-> op, self |-> self, schema |-> hydra[self], id |-> id, mark |-> mark,
     d |-> d, afterFailure |-> afterFailure]
NoInput ==
    [op |-> "none", self |-> 0, schema |-> 0, id |-> 0, mark |-> FALSE, d |-> 0,
     afterFailure |-> FALSE]

Response(tag, exc, val) == [tag |-> tag, exc |-> exc, val |-> val]
NoResponse == Response("none", "", Absent)

Init ==
    /\ schemaCache = 0
    /\ builds = 0
    /\ hydra = [k \in Instances |-> 0]
    /\ created = 0
    /\ open = {}
    /\ pc = [c \in Slots |-> "idle"]
    /\ inp = [c \in Slots |-> NoInput]
    /\ req = [c \in Slots |-> NoSelector]
    /\ tok = [c \in Slots |-> "none"]
    /\ sess = [c \in Slots |-> 0]
    /\ sent = [c \in Slots |-> <<>>]
    /\ resp = [c \in Slots |-> NoResponse]
    /\ out = [c \in Slots |-> NoOutcome]
    /\ anyFailed = FALSE

callVars == <<created, open, pc, inp, req, tok, sess, sent, resp, out, anyFailed>>

\* Hydrawise.__init__: self._schema = DSLSchema(_get_schema()).
Construct(k) ==
    /\ hydra[k] = 0
    /\ \A j \in Instances : j < k => hydra[j] # 0
    /\ LET s == _get_schema
       IN  /\ schemaCache' = s.cache
           /\ builds' = s.builds
           /\ hydra' = [hydra EXCEPT ![k] = s.desc]
    /\ UNCHANGED callVars

\* Calls that have yet to construct their Client.
Pending == {c \in Slots : pc[c] \in {"token", "connect"}}

\* The selector a facade method builds from its arguments.
selector_of(op, id, mark, d, until) ==
    CASE op = "get_user" -> get_user
      [] op = "get_controllers" -> get_controllers
      [] op = "get_controller" -> get_controller(id)
      [] op = "get_zones" -> get_zones(id)
      [] op = "get_zone" -> get_zone(id)
      [] op = "start_zone" -> start_zone(id, mark, d)
      [] op = "stop_zone" -> stop_zone(id)
      [] op = "start_all_zones" -> start_all_zones(id, mark, d)
      [] op = "stop_all_zones" -> stop_all_zones(id)
      [] op = "suspend_zone" -> suspend_zone(id, until)
      [] op = "resume_zone" -> resume_zone(id)
      [] op = "suspend_all_zones" -> suspend_all_zones(id, until)
      [] op = "resume_all_zones" -> resume_all_zones(id)
      [] op = "delete_zone_suspension" -> delete_zone_suspension(id)

\* A facade method runs up to the token fetch: the selector is built from
\* self._schema and the arguments, then _query / _mutation calls _client.
Begin(c, k, op, id, mark, d, until) ==
    /\ pc[c] = "idle"
    /\ hydra[k] # 0
    /\ created + Cardinality(Pending) < MaxSessions
    /\ pc' = [pc EXCEPT ![c] = "token"]
    /\ inp' = [inp EXCEPT ![c] = Input(op, k, id, mark, d, anyFailed)]
    /\ req' = [req EXCEPT ![c] = selector_of(op, id, mark, d, until)]
    /\ UNCHANGED <<schemaCache, builds, hydra, created, open, tok, sess, sent,
                   resp, out, anyFailed>>

CallGetUser(c, k) == Begin(c, k, "get_user", 0, FALSE, 0, 0)
CallGetControllers(c, k) == Begin(c, k, "get_controllers", 0, FALSE, 0, 0)
CallGetController(c, k) ==
    \E controller_id \in Ids : Begin(c, k, "get_controller", controller_id, FALSE, 0, 0)
CallGetZones(c, k) ==
    \E controller \in Ids : Begin(c, k, "get_zones", controller, FALSE, 0, 0)
CallGetZone(c, k) ==
    \E zone_id \in Ids : Begin(c, k, "get_zone", zone_id, FALSE, 0, 0)
CallStartZone(c, k) ==
    \E zone \in Ids, mark \in BOOLEAN, d \in Durations :
        Begin(c, k, "start_zone", zone, mark, d, 0)
CallStopZone(c, k) ==
    \E zone \in Ids : Begin(c, k, "stop_zone", zone, FALSE, 0, 0)
CallStartAllZones(c, k) ==
    \E controller \in Ids, mark \in BOOLEAN, d \in Durations :
        Begin(c, k, "start_all_zones", controller, mark, d, 0)
CallStopAllZones(c, k) ==
    \E controller \in Ids : Begin(c, k, "stop_all_zones", controller, FALSE, 0, 0)
CallSuspendZone(c, k) ==
    \E zone \in Ids, until \in Untils :
        Begin(c, k, "suspend_zone", zone, FALSE, 0, until)
CallResumeZone(c, k) ==
    \E zone \in Ids : Begin(c, k, "resume_zone", zone, FALSE, 0, 0)
CallSuspendAllZones(c, k) ==
    \E controller \in Ids, until \in Untils :
        Begin(c, k, "suspend_all_zones", controller, FALSE, 0, until)
CallResumeAllZones(c, k) ==
    \E controller \in Ids : Begin(c, k, "resume_all_zones", controller, FALSE, 0, 0)
CallDeleteZoneSuspension(c, k) ==
    \E suspension \in Ids :
        Begin(c, k, "delete_zone_suspension", suspension, FALSE, 0, 0)

----------------------------------------------------------------------------
(* Request executor *)

_client_ignoring_auth_failure(fetched) == "connect"

\* _client: `await self._auth.token()` raises out of _client, _query/_mutation
\* and the facade method before the transport or the Client exist.
_client(fetched) == IF fetched THEN "connect" ELSE "done"

TokenOk(c) ==
    /\ pc[c] = "token"
    /\ tok' = [tok EXCEPT ![c] = "ok"]
    /\ pc' = [pc EXCEPT ![c] = _client(TRUE)]
    /\ UNCHANGED <<schemaCache, builds, hydra, created, open, inp, req, sess,
                   sent, resp, out, anyFailed>>

TokenFail(c) ==
    /\ pc[c] = "token"
    /\ tok' = [tok EXCEPT ![c] = "failed"]
    /\ out' = [out EXCEPT ![c] = Raise("AuthenticationError", <<>>)]
    /\ pc' = [pc EXCEPT ![c] = _client(FALSE)]
    /\ UNCHANGED <<schemaCache, builds, hydra, created, open, inp, req, sess,
                   sent, resp, anyFailed>>

Client_pooled == IF open = {} THEN created + 1 ELSE CHOOSE s \in open : TRUE

\* Client(transport=AIOHTTPTransport(...)): a new object for every call.
Client == created + 1

\* `async with <Client> as session`: the transport connects.
Connect(c) ==
    /\ pc[c] = "connect"
    /\ created' = created + 1
    /\ sess' = [sess EXCEPT ![c] = Client]
    /\ open' = open \cup {Client}
    /\ pc' = [pc EXCEPT ![c] = "execute"]
    /\ UNCHANGED <<schemaCache, builds, hydra, inp, req, tok, sent, resp, out,
                   anyFailed>>

\* session.execute(dsl_gql(DSLQuery(selector) | DSLMutation(selector))).
Send(c) ==
    /\ pc[c] = "execute"
    /\ sent' = [sent EXCEPT ![c] = Append(@, dsl_gql(req[c]))]
    /\ pc' = [pc EXCEPT ![c] = "await"]
    /\ UNCHANGED <<schemaCache, builds, hydra, created, open, inp, req, tok,
                   sess, resp, out, anyFailed>>

\* What the server may put under the key the facade reads.
Values(op) ==
    IF op \in MutationOps THEN MutationValues
    ELSE IF op \in ListQueryOps THEN ListValues
    ELSE SingleValues

ConcValues(op) ==
    IF op \in MutationOps
    THEN {Dict({"status", "summary"}, "OK", "done"),
          Dict({"status", "summary"}, "ERROR", "zone busy")}
    ELSE {Objects(<<WireObject(TRUE, 1)>>), Objects(<<WireObject(FALSE, 0)>>)}

\* execute returns `result`.  _query: `return result`.  _mutation: the
\* interpretation of result[selector.name].  Either way the with-block is left.
RespondWith(c, v) ==
    /\ pc[c] = "await"
    /\ resp' = [resp EXCEPT ![c] = Response("data", "", v)]
    /\ out' = [out EXCEPT ![c] =
                  IF inp[c].op \in MutationOps THEN _mutation_result(v) ELSE ReturnNone]
    /\ pc' = [pc EXCEPT ![c] = "exit"]
    /\ UNCHANGED <<schemaCache, builds, hydra, created, open, inp, req, tok,
                   sess, sent, anyFailed>>

Respond(c) == \E v \in Values(inp[c].op) : RespondWith(c, v)
RespondConc(c) == \E v \in ConcValues(inp[c].op) : RespondWith(c, v)

on_execute_error_retry == "execute"

\* An exception out of session.execute is not caught: it leaves the with-block.
on_execute_error == "exit"

ExecuteFail(c) ==
    /\ pc[c] = "await"
    /\ \E e \in ExecuteErrors :
          /\ resp' = [resp EXCEPT ![c] = Response("error", e, Absent)]
          /\ out' = [out EXCEPT ![c] = Raise(e, <<>>)]
    /\ pc' = [pc EXCEPT ![c] = on_execute_error]
    /\ UNCHANGED <<schemaCache, builds, hydra, created, open, inp, req, tok,
                   sess, sent, anyFailed>>

aexit_on_success_only(c) == IF out[c].kind = "raise" THEN open ELSE open \ {sess[c]}

\* Client.__aexit__: runs however the with-block is left.
aexit(c) == open \ {sess[c]}

\* The with-block exits; a query method then deserializes what _query returned.
Close(c) ==
    /\ pc[c] = "exit"
    /\ open' = aexit(c)
    /\ out' = [out EXCEPT ![c] =
                  IF inp[c].op \in QueryOps /\ out[c].kind = "return"
                  THEN query_return(inp[c].op, resp[c].val)
                  ELSE out[c]]
    /\ anyFailed' = (anyFailed \/ resp[c].tag = "error")
    /\ pc' = [pc EXCEPT ![c] = "done"]
    /\ UNCHANGED <<schemaCache, builds, hydra, created, inp, req, tok, sess,
                   sent, resp>>

\* The caller has the outcome; the coroutine object is gone.
Return(c) ==
    /\ pc[c] = "done"
    /\ pc' = [pc EXCEPT ![c] = "idle"]
    /\ inp' = [inp EXCEPT ![c] = NoInput]
    /\ req' = [req EXCEPT ![c] = NoSelector]
    /\ tok' = [tok EXCEPT ![c] = "none"]
    /\ sess' = [sess EXCEPT ![c] = 0]
    /\ sent' = [sent EXCEPT ![c] = <<>>]
    /\ resp' = [resp EXCEPT ![c] = NoResponse]
    /\ out' = [out EXCEPT ![c] = NoOutcome]
    /\ UNCHANGED <<schemaCache, builds, hydra, created, open, anyFailed>>

----------------------------------------------------------------------------
(* Specifications *)

\* One caller awaiting each call before the next: every operation, every
\* response shape.
Next ==
    \/ \E k \in Instances : Construct(k)
    \/ \E c \in SeqSlots, k \in Instances :
          \/ CallGetUser(c, k)
          \/ CallGetControllers(c, k)
          \/ CallGetController(c, k)
          \/ CallGetZones(c, k)
          \/ CallGetZone(c, k)
          \/ CallStartZone(c, k)
          \/ CallStopZone(c, k)
          \/ CallStartAllZones(c, k)
          \/ CallStopAllZones(c, k)
          \/ CallSuspendZone(c, k)
          \/ CallResumeZone(c, k)
          \/ CallSuspendAllZones(c, k)
          \/ CallResumeAllZones(c, k)
          \/ CallDeleteZoneSuspension(c, k)
    \/ \E c \in SeqSlots :
          \/ TokenOk(c)
          \/ TokenFail(c)
          \/ Connect(c)
          \/ Send(c)
          \/ Respond(c)
          \/ ExecuteFail(c)
          \/ Close(c)
          \/ Return(c)

Spec == Init /\ [][Next]_vars

\* Several calls in flight on one client, interleaved at their awaits.
ConcGetZones(c) == Begin(c, 1, "get_zones", 1, FALSE, 0, 0)
ConcStopZone(c) == Begin(c, 1, "stop_zone", 1, FALSE, 0, 0)

NextConc ==
    \/ Construct(1)
    \/ \E c \in Slots :
          \/ ConcGetZones(c)
          \/ ConcStopZone(c)
          \/ TokenOk(c)
          \/ TokenFail(c)
          \/ Connect(c)
          \/ Send(c)
          \/ RespondConc(c)
          \/ ExecuteFail(c)
          \/ Close(c)
          \/ Return(c)

SpecConc == Init /\ [][NextConc]_vars

----------------------------------------------------------------------------
(* Properties *)

Done(c) == pc[c] = "done"
GotData(c) == resp[c].tag = "data"
IsStatusObject(v) == v.kind = "dict" /\ v.keys = {"status", "summary"}

\* C1: a status-returning mutation whose result value is a status object
\* (status and summary) completes without error exactly when status = "OK";
\* for any other status it raises MutationError(summary).
C1_StatusObjectDecides ==
    \A c \in Slots :
        (Done(c) /\ inp[c].op \in StatusMutationOps /\ GotData(c)
            /\ IsStatusObject(resp[c].val))
        => /\ (out[c] = ReturnNone) <=> (resp[c].val.status = "OK")
           /\ resp[c].val.status # "OK"
                => out[c] = Raise("MutationError", <<resp[c].val.summary>>)

C1_Witness ==
    \E c \in Slots :
        /\ Done(c)
        /\ inp[c].op = "start_zone"
        /\ resp[c] = Response("data", "", Dict({"status", "summary"}, "ERROR", "zone busy"))
        /\ out[c] = Raise("MutationError", <<"zone busy">>)

\* C2: delete_zone_suspension with a bare boolean result: false raises
\* MutationError with no argument, true completes without error.
C2_BareBoolean ==
    \A c \in Slots :
        (Done(c) /\ inp[c].op = "delete_zone_suspension" /\ GotData(c)
            /\ resp[c].val.kind = "bool")
        => /\ resp[c].val.n = 0 => out[c] = Raise("MutationError", <<>>)
           /\ resp[c].val.n = 1 => out[c] = ReturnNone

C2_Witness ==
    \E c \in Slots :
        /\ Done(c)
        /\ inp[c].op = "delete_zone_suspension"
        /\ resp[c] = Response("data", "", Scalar("bool", 0))
        /\ out[c] = Raise("MutationError", <<>>)

OtherShape(v) == v.kind \in {"null", "int", "str", "list"}

\* C3 as stated: a mutation whose result value is neither a status object nor
\* a boolean (null, a number, a string, a list) fails, and not with
\* MutationError.
C3_ProtocolViolationIsFatal ==
    \A c \in Slots :
        (Done(c) /\ inp[c].op \in MutationOps /\ GotData(c) /\ OtherShape(resp[c].val))
        => out[c].kind = "raise" /\ out[c].exc # "MutationError"

\* C3 amended: such a value is judged by its truthiness alone: None, 0, ""
\* and [] raise MutationError with no argument; a non-zero number, a
\* non-empty string and a non-empty list complete as a success.
C3_OtherShapeByTruthiness ==
    \A c \in Slots :
        (Done(c) /\ inp[c].op \in MutationOps /\ GotData(c) /\ OtherShape(resp[c].val))
        => IF resp[c].val.kind = "null" \/ resp[c].val.n = 0
           THEN out[c] = Raise("MutationError", <<>>)
           ELSE out[c] = ReturnNone

C3_Witness ==
    \E c \in Slots :
        /\ Done(c)
        /\ inp[c].op = "stop_zone"
        /\ resp[c] = Response("data", "", Scalar("str", 1))
        /\ out[c] = ReturnNone

\* C4: the arguments of a sent startZone / startAllZones mutation hold
\* customRunDuration (= d) iff d > 0; the identifier and markRunAsScheduled
\* are always there.
C4_DurationOnlyWhenPositive ==
    \A c \in Slots :
        (inp[c].op \in {"start_zone", "start_all_zones"} /\ sent[c] # <<>>)
        => LET a == sent[c][1].fields[1].args
               idKey == IF inp[c].op = "start_zone" THEN "zoneId" ELSE "controllerId"
           IN  /\ ("customRunDuration" \in DOMAIN a) <=> (inp[c].d > 0)
               /\ inp[c].d > 0 => a["customRunDuration"] = inp[c].d
               /\ idKey \in DOMAIN a /\ a[idKey] = inp[c].id
               /\ "markRunAsScheduled" \in DOMAIN a
               /\ a["markRunAsScheduled"] = inp[c].mark

C4_Witness ==
    \E c \in Slots :
        /\ inp[c].op = "start_zone"
        /\ inp[c].d = 0
        /\ sent[c] # <<>>
        /\ DOMAIN sent[c][1].fields[1].args = {"zoneId", "markRunAsScheduled"}

\* C5: a finished call has released its session however it finished; when no
\* call is in flight no session is open.
C5_SessionReleased ==
    /\ \A c \in Slots : Done(c) => sess[c] \notin open
    /\ (\A c \in Slots : pc[c] \in {"idle", "done"}) => open = {}

C5_Witness ==
    \E c \in Slots :
        /\ Done(c)
        /\ inp[c].op \in MutationOps
        /\ sess[c] # 0
        /\ out[c] = Raise("KeyError", <<>>)
        /\ open = {}

\* C6: a session is opened and a request sent only after the call's token was
\* obtained; a failed token fetch ends the call with AuthenticationError, no
\* session opened and nothing sent.
C6_TokenFirst ==
    \A c \in Slots :
        /\ (sess[c] # 0 \/ sent[c] # <<>> \/ pc[c] \in {"execute", "await", "exit"})
              => tok[c] = "ok"
        /\ tok[c] = "failed"
              => /\ Done(c)
                 /\ out[c] = Raise("AuthenticationError", <<>>)
                 /\ sess[c] = 0
                 /\ sent[c] = <<>>
                 /\ resp[c] = NoResponse

C6_Witness ==
    \E c \in Slots :
        /\ Done(c)
        /\ tok[c] = "failed"
        /\ out[c] = Raise("AuthenticationError", <<>>)
        /\ created = 0

\* C7: a call sends at most one document, each with exactly one top-level
\* operation (the selector the method built); a finished call has sent
\* exactly one if its token fetch succeeded and none otherwise.
C7_OneRequestPerCall ==
    \A c \in Slots :
        /\ Len(sent[c]) <= 1
        /\ \A i \in 1..Len(sent[c]) :
              /\ Len(sent[c][i].fields) = 1
              /\ sent[c][i].fields[1] = req[c]
              /\ sent[c][i].type = IF inp[c].op \in QueryOps THEN "query" ELSE "mutation"
        /\ Done(c) => Len(sent[c]) = IF tok[c] = "ok" THEN 1 ELSE 0

C7_Witness ==
    \E c \in Slots :
        /\ Done(c)
        /\ resp[c].tag = "error"
        /\ out[c].kind = "raise"
        /\ Len(sent[c]) = 1

\* C8: the schema descriptor is built at most once; every constructed client
\* and every call uses that one cached descriptor, also after failed calls.
C8_SchemaBuiltOnce ==
    /\ builds <= 1
    /\ schemaCache = builds
    /\ \A k \in Instances : hydra[k] \in {0, schemaCache}
    /\ \A c \in Slots : pc[c] # "idle" => inp[c].schema = 1 /\ schemaCache = 1

C8_Witness ==
    \E c \in Slots :
        /\ Done(c)
        /\ out[c].kind = "return"
        /\ inp[c].afterFailure
        /\ inp[c].self = 2
        /\ builds = 1

\* What a finished call yields, from its own token fetch and own response.
Expected(c) ==
    IF tok[c] = "failed" THEN Raise("AuthenticationError", <<>>)
    ELSE IF resp[c].tag = "error" THEN Raise(resp[c].exc, <<>>)
    ELSE IF inp[c].op \in MutationOps
    THEN IF resp[c].val.status = "OK" THEN ReturnNone
         ELSE Raise("MutationError", <<resp[c].val.summary>>)
    ELSE IF \E i \in 1..Len(resp[c].val.items) : ~resp[c].val.items[i].hasId
    THEN Raise("DeserializationError", <<>>)
    ELSE ReturnValue([i \in 1..Len(resp[c].val.items) |-> [id |-> resp[c].val.items[i].id]])

C9_State ==
    /\ \A c1, c2 \in Slots : (c1 # c2 /\ sess[c1] # 0) => sess[c1] # sess[c2]
    /\ \A c \in Slots : pc[c] \in {"execute", "await", "exit"} => sess[c] \in open
    /\ \A c \in Slots : Done(c) => out[c] = Expected(c)

C9_Step ==
    \A c \in Slots : (sess'[c] # sess[c] /\ sess'[c] # 0) => sess'[c] > created

\* C9: with calls interleaved on one client, every call has a session of its
\* own, open from its connect to its own exit whatever the other calls do and
\* never one an earlier call had; its outcome follows from its own token
\* fetch and its own response.
C9_CallsIndependent == [](C9_State) /\ [][C9_Step]_vars

C9_Witness ==
    \E c1, c2 \in Slots :
        /\ c1 # c2
        /\ inp[c1].self = inp[c2].self
        /\ pc[c1] = "await"
        /\ sess[c1] \in open
        /\ Done(c2)
        /\ sess[c2] # 0
        /\ sess[c2] < sess[c1]
        /\ out[c2].kind = "raise"

====
